---- MODULE Spec2Model ----
(***************************************************************************)
(* A model of the snake game of src/src/main.rs (Bevy).                    *)
(*                                                                         *)
(* Positions are kept in cells: every Transform the game writes is a       *)
(* multiple of CELL_SIZE (24.0, exact in f32), so a translation (x, y, 0)  *)
(* is the cell <<x / CELL_SIZE, y / CELL_SIZE>>.                           *)
(*                                                                         *)
(* One frame of the Update schedule runs the chained systems in the order  *)
(* of main (lines 89-100); pc names the system that runs next.  Bevy       *)
(* applies the deferred Commands of a system before the next system of a   *)
(* chain runs, and applies NextState in the StateTransition schedule,      *)
(* which runs before Update in the following frame.                        *)
(***************************************************************************)
EXTENDS Integers, Sequences, FiniteSets, TLC

\* The arena, scaled down from the 24 x 24 cells of main.rs:9-10 so that the
\* walls are within reach of a short game; every formula is stated relative
\* to these two, never to the number 24.
ARENA_WIDTH == 2
ARENA_HEIGHT == 2
\* Food is no longer eaten once Score has reached MaxScore (the run stops there).
MaxScore == 2
\* At most MaxKeys keys are held down in one frame.
MaxKeys == 2

VARIABLES
    state,             \* State<GameState>: the current phase
    next_state,        \* NextState<GameState>: the pending transition, or "Unchanged"
    pc,                \* the system of the frame that runs next
    direction,         \* SnakeHead.direction
    segments,          \* the cells of the entities of SnakeSegments, head first
    food,              \* the cells of the Food entities
    score,             \* Score
    growth_events,     \* GrowthEvents not yet read by snake_growth
    game_over_events,  \* GameOverEvents not yet read by game_over
    last_move,         \* the direction of the last movement tick of this game, or "None"
    timer_finished     \* MovementTimer: finished() as the last tick() of the timer left it

vars == <<state, next_state, pc, direction, segments, food, score,
          growth_events, game_over_events, last_move, timer_finished>>

GameState == {"Playing", "GameOver"}

Direction == {"Left", "Up", "Right", "Down"}

\* The keys the systems read (arrow key or its WASD twin, and Space), and
\* "Other" for any key that no system reads.
KeyCode == Direction \cup {"Space", "Other"}

\* The keys ButtonInput can report as pressed in one frame.
KeySets == { keys \in SUBSET KeyCode : Cardinality(keys) <= MaxKeys }

opposite(d) ==
    CASE d = "Left" -> "Right"
      [] d = "Right" -> "Left"
      [] d = "Up" -> "Down"
      [] d = "Down" -> "Up"

Abs(n) == IF n < 0 THEN -n ELSE n

\* Integer division as Rust's i32 `/`: it truncates toward zero.
Quot(a, b) == IF a >= 0 THEN a \div b ELSE -((-a) \div b)

\* A slip in FoodCells: the ranges are written ..= and take in their upper end.
FoodCellsInclusive ==
    { <<x, y>> : x \in Quot(-ARENA_WIDTH, 2) .. Quot(ARENA_WIDTH, 2),
                 y \in Quot(-ARENA_HEIGHT, 2) .. Quot(ARENA_HEIGHT, 2) }

\* spawn_food: gen_range(-(W as i32) / 2 .. (W as i32) / 2) for each coordinate.
FoodCells ==
    { <<x, y>> : x \in Quot(-ARENA_WIDTH, 2) .. (Quot(ARENA_WIDTH, 2) - 1),
                 y \in Quot(-ARENA_HEIGHT, 2) .. (Quot(ARENA_HEIGHT, 2) - 1) }

\* The cells of the foods one run of a system spawns: spawn_food is called
\* once for each food eaten, and once by setup.
Spawns == {<<>>} \cup { <<c>> : c \in FoodCells }

Systems == <<"StateTransition", "snake_movement_input", "snake_movement",
             "snake_eating", "snake_growth", "game_over", "handle_game_over">>

\* The system that follows the one at pc in the frame.
After(p) ==
    LET i == CHOOSE j \in 1..Len(Systems) : Systems[j] = p
    IN  Systems[(i % Len(Systems)) + 1]

\* setup, lines 169-196: the head at the origin facing Up, one segment below it.
InitialSegments == << <<0, 0>>, <<0, -1>> >>

Init ==
    /\ state = "Playing"
    /\ next_state = "Unchanged"
    /\ pc = "StateTransition"
    /\ direction = "Up"
    /\ segments = InitialSegments
    /\ \E c \in FoodCells : food = <<c>>
    /\ score = 0
    /\ growth_events = 0
    /\ game_over_events = 0
    /\ last_move = "None"
    /\ timer_finished = FALSE

\* The StateTransition schedule: a pending NextState becomes the state.
StateTransition ==
    /\ pc = "StateTransition"
    /\ UNCHANGED timer_finished
    /\ pc' = After(pc)
    /\ state' = IF next_state = "Unchanged" THEN state ELSE next_state
    /\ next_state' = "Unchanged"
    /\ UNCHANGED <<direction, segments, food, score, growth_events,
                   game_over_events, last_move>>

\* A slip in RequestedDirection: the last branch asks for Right on any key.
RequestedDirectionAnyKey(keys, current) ==
    IF "Left" \in keys THEN "Left"
    ELSE IF "Down" \in keys THEN "Down"
    ELSE IF "Up" \in keys THEN "Up"
    ELSE IF keys # {} THEN "Right"
    ELSE current

\* The direction the pressed keys ask for, by the order of the if-chain;
\* with no direction key pressed it is the current direction.
RequestedDirection(keys, current) ==
    IF "Left" \in keys THEN "Left"
    ELSE IF "Down" \in keys THEN "Down"
    ELSE IF "Up" \in keys THEN "Up"
    ELSE IF "Right" \in keys THEN "Right"
    ELSE current

\* A slip in ApplyDirection: the request is applied without the test.
ApplyDirectionUnchecked(dir, current) == dir

\* apply the request unless it is the opposite of the current direction
ApplyDirection(dir, current) ==
    IF dir # opposite(current) THEN dir ELSE current

\* snake_movement_input runs in every state.
snake_movement_input(keys) ==
    /\ pc = "snake_movement_input"
    /\ UNCHANGED timer_finished
    /\ pc' = After(pc)
    /\ direction' = ApplyDirection(RequestedDirection(keys, direction), direction)
    /\ UNCHANGED <<state, next_state, segments, food, score, growth_events,
                   game_over_events, last_move>>

\* The head's cell after one step in direction d.
Step(cell, d) ==
    CASE d = "Left" -> <<cell[1] - 1, cell[2]>>
      [] d = "Right" -> <<cell[1] + 1, cell[2]>>
      [] d = "Up" -> <<cell[1], cell[2] + 1>>
      [] d = "Down" -> <<cell[1], cell[2] - 1>>

\* A slip in SelfCollision: only the last segment is compared.
SelfCollisionTailOnly(new_head, segs) == segs[Len(segs)] = new_head

\* segment_positions.contains(&head_pos.translation): the cells of all the
\* entities after the head, as they were before the move.
SelfCollision(new_head, segs) ==
    \E i \in 2..Len(segs) : segs[i] = new_head

\* A slip in WallCollision: >= on the upper sides.
WallCollisionHalfOpen(new_head) ==
    \/ 2 * new_head[1] < -ARENA_WIDTH
    \/ 2 * new_head[1] >= ARENA_WIDTH
    \/ 2 * new_head[2] < -ARENA_HEIGHT
    \/ 2 * new_head[2] >= ARENA_HEIGHT

\* x * CELL_SIZE < -(W * CELL_SIZE) / 2 or > (W * CELL_SIZE) / 2, in f32.
WallCollision(new_head) ==
    \/ 2 * new_head[1] < -ARENA_WIDTH
    \/ 2 * new_head[1] > ARENA_WIDTH
    \/ 2 * new_head[2] < -ARENA_HEIGHT
    \/ 2 * new_head[2] > ARENA_HEIGHT

\* A slip in MoveSegments: the loop stops before the last segment.
MoveSegmentsButLast(segs, new_head) ==
    [i \in 1..Len(segs) |->
        IF i <= 2 THEN new_head
        ELSE IF i = Len(segs) THEN segs[i]
        ELSE segs[i - 1]]

\* "Update body segments": head_pos is read again after the head has moved, so
\* the first segment takes the head's new cell and every later segment the
\* cell its predecessor among the segments had before the move.
MoveSegments(segs, new_head) ==
    [i \in 1..Len(segs) |->
        IF i <= 2 THEN new_head ELSE segs[i - 1]]

\* A slip in snake_movement: the system is added without its run_if.
snake_movement_in_any_state(finished) ==
    /\ pc = "snake_movement"
    /\ pc' = "snake_eating"
    /\ IF finished
       THEN LET new_head == Step(segments[1], direction)
            IN  /\ game_over_events' = game_over_events
                       + (IF \E i \in 2..Len(segments) : segments[i] = new_head
                          THEN 1 ELSE 0)
                       + (IF \/ 2 * new_head[1] < -ARENA_WIDTH
                             \/ 2 * new_head[1] > ARENA_WIDTH
                             \/ 2 * new_head[2] < -ARENA_HEIGHT
                             \/ 2 * new_head[2] > ARENA_HEIGHT
                          THEN 1 ELSE 0)
                /\ segments' = [i \in 1..Len(segments) |->
                                    IF i <= 2 THEN new_head ELSE segments[i - 1]]
                /\ last_move' = direction
       ELSE UNCHANGED <<segments, game_over_events, last_move>>
    /\ timer_finished' = finished
    /\ UNCHANGED <<state, next_state, direction, food, score, growth_events>>

\* snake_movement runs while Playing; it ticks the timer and returns at once
\* unless the timer finished.
snake_movement(finished) ==
    /\ pc = "snake_movement"
    /\ pc' = After(pc)
    /\ IF state = "Playing" /\ finished
       THEN LET new_head == Step(segments[1], direction)
            IN  /\ game_over_events' = game_over_events
                       + (IF SelfCollision(new_head, segments) THEN 1 ELSE 0)
                       + (IF WallCollision(new_head) THEN 1 ELSE 0)
                /\ segments' = MoveSegments(segments, new_head)
                /\ last_move' = direction
       ELSE UNCHANGED <<segments, game_over_events, last_move>>
    /\ timer_finished' = (IF state = "Playing" THEN finished ELSE timer_finished)
    /\ UNCHANGED <<state, next_state, direction, food, score, growth_events>>

\* |head - food| < CELL_SIZE / 2 on both axes: the same cell.
Eats(head, f) ==
    /\ 2 * Abs(head[1] - f[1]) < 1
    /\ 2 * Abs(head[2] - f[2]) < 1

\* The food entities that are left once those the head is on are despawned.
Uneaten(head, fs) == SelectSeq(fs, LAMBDA f : ~Eats(head, f))

\* A slip in snake_eating: the system is added without its run_if.
snake_eating_in_any_state(spawned) ==
    /\ pc = "snake_eating"
    /\ UNCHANGED timer_finished
    /\ pc' = "snake_growth"
    /\ LET left == SelectSeq(food, LAMBDA f : f # segments[1])
           eaten == Len(food) - Len(left)
       IN  /\ Len(spawned) = eaten
           /\ score + eaten <= MaxScore
           /\ food' = left \o spawned
           /\ score' = score + eaten
           /\ growth_events' = growth_events + eaten
    /\ UNCHANGED <<state, next_state, direction, segments, game_over_events,
                   last_move>>

\* A variant of snake_eating: the new food is kept off the cells of the snake.
snake_eating_off_snake(spawned) ==
    /\ pc = "snake_eating"
    /\ UNCHANGED timer_finished
    /\ pc' = "snake_growth"
    /\ IF state = "Playing"
       THEN LET left == SelectSeq(food, LAMBDA f : f # segments[1])
                eaten == Len(food) - Len(left)
            IN  /\ Len(spawned) = eaten
                /\ \A k \in 1..Len(spawned), i \in 1..Len(segments) :
                       spawned[k] # segments[i]
                /\ score + eaten <= MaxScore
                /\ food' = left \o spawned
                /\ score' = score + eaten
                /\ growth_events' = growth_events + eaten
       ELSE /\ spawned = <<>>
            /\ UNCHANGED <<food, score, growth_events>>
    /\ UNCHANGED <<state, next_state, direction, segments, game_over_events,
                   last_move>>

\* snake_eating runs while Playing, in every frame: each food the head is on
\* is despawned, and sends a GrowthEvent, adds 1 to Score and spawns a food.
snake_eating(spawned) ==
    /\ pc = "snake_eating"
    /\ UNCHANGED timer_finished
    /\ pc' = After(pc)
    /\ IF state = "Playing"
       THEN LET left == Uneaten(segments[1], food)
                eaten == Len(food) - Len(left)
            IN  /\ Len(spawned) = eaten
                /\ score + eaten <= MaxScore
                /\ food' = left \o spawned
                /\ score' = score + eaten
                /\ growth_events' = growth_events + eaten
       ELSE /\ spawned = <<>>
            /\ UNCHANGED <<food, score, growth_events>>
    /\ UNCHANGED <<state, next_state, direction, segments, game_over_events,
                   last_move>>

\* A slip in snake_growth: it is skipped in a frame that sent a GameOverEvent.
snake_growth_unless_game_over ==
    /\ pc = "snake_growth"
    /\ UNCHANGED timer_finished
    /\ pc' = "game_over"
    /\ IF state = "Playing" /\ growth_events > 0 /\ game_over_events = 0
       THEN /\ growth_events' = growth_events - 1
            /\ segments' = Append(segments, <<0, 0>>)
       ELSE /\ growth_events' = 0
            /\ UNCHANGED segments
    /\ UNCHANGED <<state, next_state, direction, food, score, game_over_events,
                   last_move>>

\* snake_growth runs while Playing: growth_reader.read().next() takes one event,
\* and the new segment is spawned at Vec3::ZERO.
snake_growth ==
    /\ pc = "snake_growth"
    /\ UNCHANGED timer_finished
    /\ pc' = After(pc)
    /\ IF state = "Playing" /\ growth_events > 0
       THEN /\ growth_events' = growth_events - 1
            /\ segments' = Append(segments, <<0, 0>>)
       ELSE UNCHANGED <<growth_events, segments>>
    /\ UNCHANGED <<state, next_state, direction, food, score, game_over_events,
                   last_move>>

\* game_over runs while Playing: reader.read().next() takes one event.
game_over ==
    /\ pc = "game_over"
    /\ UNCHANGED timer_finished
    /\ pc' = After(pc)
    /\ IF state = "Playing" /\ game_over_events > 0
       THEN /\ game_over_events' = game_over_events - 1
            /\ next_state' = "GameOver"
       ELSE UNCHANGED <<game_over_events, next_state>>
    /\ UNCHANGED <<state, direction, segments, food, score, growth_events,
                   last_move>>

\* A slip in handle_game_over: the new head keeps the old head's direction.
handle_game_over_keeps_direction(keys, spawned) ==
    /\ pc = "handle_game_over"
    /\ UNCHANGED timer_finished
    /\ pc' = "StateTransition"
    /\ IF state = "GameOver" /\ "Space" \in keys
       THEN /\ score' = 0
            /\ segments' = << <<0, 0>>, <<0, -1>> >>
            /\ direction' = direction
            /\ Len(spawned) = 1
            /\ food' = spawned
            /\ next_state' = "Playing"
            /\ last_move' = "None"
       ELSE /\ spawned = <<>>
            /\ UNCHANGED <<score, segments, direction, food, next_state, last_move>>
    /\ UNCHANGED <<state, growth_events, game_over_events>>

\* handle_game_over runs while GameOver: on Space every entity is despawned,
\* Score is reset and setup builds the game again.
handle_game_over(keys, spawned) ==
    /\ pc = "handle_game_over"
    /\ UNCHANGED timer_finished
    /\ pc' = After(pc)
    /\ IF state = "GameOver" /\ "Space" \in keys
       THEN /\ score' = 0
            /\ segments' = InitialSegments
            /\ direction' = "Up"
            /\ Len(spawned) = 1
            /\ food' = spawned
            /\ next_state' = "Playing"
            /\ last_move' = "None"
       ELSE /\ spawned = <<>>
            /\ UNCHANGED <<score, segments, direction, food, next_state, last_move>>
    /\ UNCHANGED <<state, growth_events, game_over_events>>


Next ==
    \/ StateTransition
    \/ \E keys \in KeySets : snake_movement_input(keys)
    \/ \E finished \in BOOLEAN : snake_movement(finished)
    \/ \E spawned \in Spawns : snake_eating(spawned)
    \/ snake_growth
    \/ game_over
    \/ \E keys \in KeySets, spawned \in Spawns :
           handle_game_over(keys, spawned)

Spec == Init /\ [][Next]_vars

(***************************************************************************)
(* Steps the claims speak of.                                              *)
(***************************************************************************)

\* A movement tick: snake_movement runs while Playing with the timer finished.
Tick == state = "Playing" /\ snake_movement(TRUE)

\* The step in which Space is pressed while GameOver (handle_game_over reads
\* no other key).
Restart ==
    /\ state = "GameOver"
    /\ pc = "handle_game_over"
    /\ \E spawned \in Spawns : handle_game_over({"Space"}, spawned)

\* The GameOverEvents a step sends.
Emitted == game_over_events' - game_over_events

\* The cell one step from c in direction d, written out for the claims.
Ahead(c, d) ==
    <<c[1] + (IF d = "Right" THEN 1 ELSE IF d = "Left" THEN -1 ELSE 0),
      c[2] + (IF d = "Up" THEN 1 ELSE IF d = "Down" THEN -1 ELSE 0)>>

\* The reverse of a direction, written out for the claims.
Reverse(d) ==
    IF d = "Up" THEN "Down"
    ELSE IF d = "Down" THEN "Up"
    ELSE IF d = "Left" THEN "Right"
    ELSE "Left"

\* C1: on every movement tick without a collision and without food under the
\* new head, the head moves one cell in the current direction, the first
\* segment moves to the cell the head left, every later segment to the cell
\* its predecessor had before the move, and the length is unchanged.
C1_TickTranslatesSnake ==
    [][ ( /\ Tick
          /\ Emitted = 0
          /\ \A i \in 1..Len(food) : food[i] # Ahead(segments[1], direction) )
        => /\ Len(segments') = Len(segments)
           /\ segments'[1] = Ahead(segments[1], direction)
           /\ \A i \in 2..Len(segments) : segments'[i] = segments[i - 1] ]_vars

\* C2: a tick of a snake of length >= 4 whose new head cell is the cell of one
\* of its segments other than the tail sends a GameOverEvent; the event stays
\* pending until game_over asks for GameOver, the request stays pending until
\* the phase is GameOver, and by the start of the next frame nothing is left
\* pending; while GameOver only a restart changes the cells of the snake.
C2_SelfCollisionEndsGame ==
    /\ [][ /\ ( ( /\ Tick
                  /\ Len(segments) >= 4
                  /\ \E i \in 2..(Len(segments) - 1) :
                         segments[i] = Ahead(segments[1], direction) )
                => Emitted >= 1 )
           /\ ( (state = "Playing" /\ game_over_events >= 1)
                => (game_over_events' >= 1 \/ next_state' = "GameOver") )
           /\ ( next_state = "GameOver"
                => (next_state' = "GameOver" \/ state' = "GameOver") )
           /\ ( (state = "GameOver" /\ segments' # segments) => Restart ) ]_vars
    /\ [] ( pc = "snake_movement_input"
            => (game_over_events = 0 /\ next_state = "Unchanged") )

\* A snake of length >= 4 has just run into a segment that was not its tail:
\* after the move the segment behind the one it hit lies under the head.
C2_Witness ==
    /\ pc = "snake_eating"
    /\ state = "Playing"
    /\ game_over_events >= 1
    /\ Len(segments) >= 4
    /\ \E j \in 3..Len(segments) : segments[j] = segments[1]

\* C3 as stated: a tick sends a wall GameOverEvent exactly when the new head
\* cell's x or y is outside the half-open range [-grid/2, grid/2).
HitsBody == \E i \in 2..Len(segments) : segments[i] = Ahead(segments[1], direction)

OutsideHalfOpen(c) ==
    \/ c[1] < -Quot(ARENA_WIDTH, 2)
    \/ c[1] >= Quot(ARENA_WIDTH, 2)
    \/ c[2] < -Quot(ARENA_HEIGHT, 2)
    \/ c[2] >= Quot(ARENA_HEIGHT, 2)

C3_WallHalfOpen ==
    [][ Tick => ( Emitted - (IF HitsBody THEN 1 ELSE 0) = 1
                  <=> OutsideHalfOpen(Ahead(segments[1], direction)) ) ]_vars

\* C3 amended: a tick sends a wall GameOverEvent exactly when the new head
\* cell's x or y is outside the closed range [-grid/2, grid/2].
OutsideClosed(c) ==
    \/ 2 * c[1] < -ARENA_WIDTH
    \/ 2 * c[1] > ARENA_WIDTH
    \/ 2 * c[2] < -ARENA_HEIGHT
    \/ 2 * c[2] > ARENA_HEIGHT

C3_WallClosed ==
    [][ Tick => /\ Emitted - (IF HitsBody THEN 1 ELSE 0) \in {0, 1}
                /\ ( Emitted - (IF HitsBody THEN 1 ELSE 0) = 1
                     <=> OutsideClosed(Ahead(segments[1], direction)) ) ]_vars

\* A tick has brought the head to x = grid/2 and the game goes on.
C3_Witness ==
    /\ pc = "StateTransition"
    /\ state = "Playing"
    /\ next_state = "Unchanged"
    /\ last_move = "Right"
    /\ 2 * segments[1][1] = ARENA_WIDTH

\* C4: in a frame in which the head is on the food while Playing, snake_eating
\* adds exactly 1 to Score and replaces the food by exactly one food, and
\* snake_growth appends exactly one segment in the same frame; on a tick the
\* length is kept and every segment after the first, the new last one
\* included, takes the cell its predecessor had before the tick, so that no
\* tail cell is dropped.
HeadOnFood == \E i \in 1..Len(food) : food[i] = segments[1]

C4_EatingGrowsSnake ==
    /\ [][ /\ ( ( /\ state = "Playing"
                  /\ HeadOnFood
                  /\ \E spawned \in Spawns : snake_eating(spawned) )
                => /\ score' = score + 1
                   /\ Len(food') = 1
                   /\ food'[1] \in FoodCells
                   /\ growth_events' = 1 )
           /\ ( (snake_growth /\ growth_events >= 1)
                => /\ Len(segments') = Len(segments) + 1
                   /\ SubSeq(segments', 1, Len(segments)) = segments
                   /\ growth_events' = 0 )
           /\ ( Len(segments') # Len(segments)
                => ((snake_growth /\ growth_events >= 1) \/ Restart) )
           /\ ( (Tick /\ Len(segments) >= 3)
                => /\ Len(segments') = Len(segments)
                   /\ \A i \in 3..Len(segments) : segments'[i] = segments[i - 1] )
         ]_vars
    /\ [] ( (pc # "snake_growth" => growth_events = 0) /\ Len(food) = 1 )

\* After one food the snake has three segments, and a later tick has moved
\* the new segment from where it was spawned onto the cell of the old tail.
C4_Witness ==
    /\ state = "Playing"
    /\ score = 1
    /\ Len(segments) = 3
    /\ segments[3] = <<0, -1>>
    /\ last_move # "None"

\* C5: a request for the reverse of the current direction leaves the
\* direction as it is, and a request for any other direction sets it; the
\* result is always a direction.
C5_OppositeIgnored ==
    [][ pc = "snake_movement_input" => \A keys \in KeySets :
          snake_movement_input(keys)
          => /\ direction' \in Direction
             /\ \A k \in Direction :
                    keys \cap Direction = {k}
                    => direction' = (IF k = Reverse(direction) THEN direction ELSE k)
             /\ keys \cap Direction = {} => direction' = direction
             /\ LET asked == RequestedDirection(keys, direction)
                IN  direction' = (IF asked = Reverse(direction) THEN direction ELSE asked)
      ]_vars

\* A request for Left has been applied to a head that last moved Up.
C5_Witness ==
    /\ pc = "snake_movement"
    /\ direction = "Left"
    /\ last_move = "Up"

\* C6: the direction of a movement tick is never the reverse of the direction
\* of the tick before it.
C6_NoReversal ==
    [][ (Tick /\ last_move # "None") => direction # Reverse(last_move) ]_vars

\* C7: once a GameOverEvent has been sent in a frame, the rest of the frame
\* does not change Score, the food or the number of segments.
C7_GameOverBeforeGrowth ==
    [][ game_over_events >= 1
        => /\ score' = score
           /\ food' = food
           /\ Len(segments') = Len(segments) ]_vars

\* C8: Space pressed while GameOver resets Score, the snake, its direction and
\* the food and asks for Playing; the request is pending only right after
\* that step, with the reset values in place, and the next StateTransition
\* makes the phase Playing.
C8_RestartResets ==
    /\ [][ /\ ( Restart
                => /\ score' = 0
                   /\ segments' = << <<0, 0>>, <<0, -1>> >>
                   /\ direction' = "Up"
                   /\ Len(food') = 1
                   /\ next_state' = "Playing" )
           /\ ( (StateTransition /\ next_state = "Playing")
                => /\ state' = "Playing"
                   /\ UNCHANGED <<score, segments, direction, food>> ) ]_vars
    /\ [] ( next_state = "Playing"
            => /\ pc = "StateTransition"
               /\ state = "GameOver"
               /\ score = 0
               /\ segments = << <<0, 0>>, <<0, -1>> >>
               /\ direction = "Up"
               /\ Len(food) = 1 )

\* Restart has been pressed and the transition to Playing is pending.
C8_Witness ==
    /\ state = "GameOver"
    /\ next_state = "Playing"
    /\ pc = "StateTransition"

\* C9: GameOverEvents are sent by ticks only; GameOver is asked for only by
\* game_over while Playing with an event pending, and the phase becomes
\* GameOver only from Playing on such a request; the phase leaves GameOver
\* only on the request of a restart, and while GameOver only a restart
\* changes the snake's cells, the food or Score; Space while Playing changes
\* nothing.
C9_GameOverIsStable ==
    [][ /\ ( Emitted > 0 => Tick )
        /\ ( (next_state' = "GameOver" /\ next_state # "GameOver")
             => (state = "Playing" /\ game_over /\ game_over_events >= 1) )
        /\ ( (state' = "GameOver" /\ state # "GameOver")
             => (state = "Playing" /\ StateTransition /\ next_state = "GameOver") )
        /\ ( (state = "GameOver" /\ state' # "GameOver")
             => (StateTransition /\ next_state = "Playing") )
        /\ ( (next_state' = "Playing" /\ next_state # "Playing") => Restart )
        /\ ( (state = "GameOver"
              /\ <<segments, food, score>>' # <<segments, food, score>>)
             => Restart )
        /\ ( (state = "Playing" /\ handle_game_over({"Space"}, <<>>))
             => UNCHANGED <<state, next_state, direction, segments, food,
                            score, growth_events, game_over_events, last_move,
                            timer_finished>> )
      ]_vars

\* While GameOver a frame has run up to handle_game_over and a direction key
\* has turned the head since the last tick.
C9_Witness ==
    /\ state = "GameOver"
    /\ pc = "handle_game_over"
    /\ last_move # "None"
    /\ direction # last_move

KeysWithOther == { keys \in KeySets : "Other" \in keys }

C11_TailCellIsFree ==
    [][ ( /\ Tick
          /\ segments[Len(segments)] = Ahead(segments[1], direction)
          /\ \A i \in 2..(Len(segments) - 1) :
                 segments[i] # Ahead(segments[1], direction) )
        => Emitted = 0 ]_vars

\* Between frames: the Update schedule of a frame has run to its end.
BetweenFrames == pc = "StateTransition"

\* C12: between frames the snake has at least two entries and no two of them
\* are on the same cell.
C12_DistinctCells ==
    BetweenFrames
    => /\ Len(segments) >= 2
       /\ \A i, j \in 1..Len(segments) : i # j => segments[i] # segments[j]

\* C13: between frames, in either phase, there is exactly one food, and both
\* coordinates of its cell are in [-grid/2, grid/2).
C13_OneFoodInBounds ==
    BetweenFrames
    => /\ Len(food) = 1
       /\ -Quot(ARENA_WIDTH, 2) <= food[1][1]
       /\ food[1][1] < Quot(ARENA_WIDTH, 2)
       /\ -Quot(ARENA_HEIGHT, 2) <= food[1][2]
       /\ food[1][2] < Quot(ARENA_HEIGHT, 2)

\* The game is over after two foods were eaten and replaced.
C13_Witness ==
    /\ BetweenFrames
    /\ state = "GameOver"
    /\ score = 2
    /\ Len(food) = 1

\* C14: Score changes only by exactly +1 in a step of snake_eating taken while
\* Playing with the head on the food, and to 0 by a restart; it never
\* decreases otherwise.
C14_ScoreChanges ==
    [][ /\ ( score' # score
             => \/ /\ state = "Playing"
                   /\ HeadOnFood
                   /\ \E spawned \in Spawns : snake_eating(spawned)
                   /\ score' = score + 1
                \/ (Restart /\ score' = 0) )
        /\ ( score' < score => Restart )
        /\ ( (Tick \/ game_over \/ snake_growth \/ StateTransition
              \/ pc = "snake_movement_input")
             => score' = score )
        /\ ( (state = "GameOver" /\ ~Restart) => score' = score ) ]_vars

\* The second food has just been eaten.
C14_Witness ==
    /\ pc = "snake_growth"
    /\ growth_events = 1
    /\ score = 2

\* C15: whenever snake_eating replaces an eaten food, every cell of the snake
\* that lies in the spawning range, the head's cell included, can be the cell
\* of the new food.
C15_FoodMaySpawnOnSnake ==
    ( /\ pc = "snake_eating"
      /\ state = "Playing"
      /\ HeadOnFood
      /\ score < MaxScore )
    => \A i \in 1..Len(segments) :
           ( /\ -Quot(ARENA_WIDTH, 2) <= segments[i][1]
             /\ segments[i][1] < Quot(ARENA_WIDTH, 2)
             /\ -Quot(ARENA_HEIGHT, 2) <= segments[i][2]
             /\ segments[i][2] < Quot(ARENA_HEIGHT, 2) )
           => ENABLED snake_eating(<<segments[i]>>)

\* A food has just been eaten and the new food lies under a segment that is
\* on another cell than the head.
C15_Witness ==
    /\ pc = "snake_growth"
    /\ growth_events = 1
    /\ \E i \in 2..Len(segments) :
           segments[i] = food[1] /\ segments[i] # segments[1]

\* C16: once the snake has moved, food is eaten and a segment is added only
\* in a frame in which the timer finished and the snake moved.  (The head is
\* on a cell with food in a later frame without a tick only if a food eaten
\* since the tick was replaced by one on that cell, so a step that breaks
\* this is a second food eaten between two consecutive ticks.)
C16_EatenOnlyOnTick ==
    [][ ( /\ last_move # "None"
          /\ (score' > score \/ Len(segments') > Len(segments)) )
        => timer_finished ]_vars

\* C17: between frames every segment is at Manhattan distance at most 1 from
\* the entry before it, a segment that growth has just added included.
C17_Contiguous ==
    BetweenFrames
    => \A i \in 2..Len(segments) :
           LET dx == segments[i][1] - segments[i - 1][1]
               dy == segments[i][2] - segments[i - 1][2]
           IN  (IF dx < 0 THEN -dx ELSE dx) + (IF dy < 0 THEN -dy ELSE dy) <= 1

\* C18: between frames, in either phase, the snake has Score + 2 entries.
C18_LengthIsScorePlusTwo ==
    BetweenFrames => Len(segments) = score + 2

\* The game is over with two foods eaten and four entries.
C18_Witness ==
    /\ BetweenFrames
    /\ state = "GameOver"
    /\ score = 2
    /\ Len(segments) = 4
====
